---- MODULE Spec2Model ----
(***************************************************************************)
(* Model of src/bot.py: the countdown bot's per-chat timer scheduler.      *)
(*                                                                         *)
(* One asyncio event loop runs every coroutine, so the code between two    *)
(* awaits that really suspend is one atomic step.  The suspension points   *)
(* are send_message (164, 181), edit_message_text (101), the backoff sleep *)
(* (112) and the interval sleep (124).  calculate_progress is declared     *)
(* async but contains no await, so awaiting it (77) does not suspend.      *)
(*                                                                         *)
(* Every /countdown command is one invocation of countdown(); invocation i *)
(* creates at most one task, also numbered i.  "Session i" is that pair.   *)
(* The webhook route awaits process_update per HTTP request, so several    *)
(* invocations can be suspended at the same time.                          *)
(*                                                                         *)
(* The clock is read in whole seconds, START_DATE being second 0, and      *)
(* advances Step seconds at a time.  Logging is not modelled.  The branch  *)
(* "except Exception" of timer_task (129-131) is unreachable, since        *)
(* update_timer_message catches every Exception itself, and is left out.   *)
(*                                                                         *)
(* Specifications: Spec is the service at work, its commands sent outside  *)
(* any topic; SpecThreads lets the commands come from the topics of forum  *)
(* chats; SpecShutdown adds the end of the process; SpecRender calls the   *)
(* pure functions (calculate_progress, get_day_form, the bar) on their own.*)
(***************************************************************************)
EXTENDS Integers, FiniteSets, Sequences, TLC

\* ---- program constants ----
\* Instants are seconds of Yekaterinburg wall-clock time counted from
\* START_DATE (2025-03-14 00:00); END_DATE (2025-07-01 23:59) is 109 days,
\* 23 hours and 59 minutes later.
BAR_LENGTH == 16
START_DATE == 0
END_DATE == 9503940
UPDATE_INTERVAL == 60

\* ---- bounds of the model ----
MaxStarts == 2          \* number of /countdown commands processed
NumChats == 2           \* number of distinct chats
MaxTicks == 3           \* number of clock advances
Step == 60              \* seconds per clock advance
MaxOffset == 3          \* seconds around each instant calculate_progress is called at
MaxDays == 125          \* largest day count get_day_form is called with

NumThreads == 2         \* number of distinct threads (topics) of a chat

ChatIds == 1..NumChats
\* message_thread_id (152): None outside any topic, an integer inside one.
\* Thread 1 stands for None.
MainThread == 1
Threads == 1..NumThreads
Sessions == 1..MaxStarts
StartInstants == {END_DATE - Step}
RetryAfterValues == {Step, 2 * Step}
BadRequestTexts == {"Message is not modified", "Message to edit not found"}

\* What an awaited edit_message_text call can end in.
Outcomes ==
    {[kind |-> "ok", text |-> "", retry_after |-> 0]}
    \cup {[kind |-> "BadRequest", text |-> s, retry_after |-> 0] : s \in BadRequestTexts}
    \cup {[kind |-> "RetryAfter", text |-> "", retry_after |-> w] : w \in RetryAfterValues}
    \cup {[kind |-> "Exception", text |-> "", retry_after |-> 0]}

NoState == <<>>         \* data.get("last_state") of an entry never rendered

VARIABLES
    now,            \* datetime.datetime.now(ekb_tz), in seconds
    ticks,          \* clock advances made so far
    active_timers,  \* the dict: chat_id -> [message_id, task, last_state]
    started,        \* number of countdown() invocations begun
    handler,        \* per invocation: where countdown() is suspended
    task,           \* per invocation: the asyncio.Task it created
    hist,           \* per session: record of the edits made (history only)
    thread_id,      \* per invocation: update.message.message_thread_id (152)
    phase,          \* of the process: running, closing (asyncio.run is
                    \* unwinding), exited (the finally block has run)
    call            \* a call of one of the pure functions: its argument
                    \* and what it returned

vars == <<now, ticks, active_timers, started, handler, task, hist,
          thread_id, phase, call>>

\* ---- calculate_progress (39-58) ----
\* (a variant of calculate_progress without the branch for instants before
\* START_DATE: the time left is counted from the instant itself)
calculate_progress_NoClamp(t) ==
    IF t > END_DATE
    THEN <<0, 0, 0, 0, 100>>
    ELSE LET time_left == END_DATE - t
             total_duration == END_DATE - START_DATE
             elapsed == IF t < START_DATE THEN 0 ELSE t - START_DATE
             secs == time_left % 86400
         IN  <<time_left \div 86400, secs \div 3600, (secs % 3600) \div 60,
               (secs % 3600) % 60, (elapsed * 100) \div total_duration>>

\* (a variant of calculate_progress whose percent inside the period is
\* reduced modulo 100, so that it is 0 again at END_DATE itself)
calculate_progress_Wraps(t) ==
    IF t < START_DATE
    THEN LET time_left == END_DATE - START_DATE
             secs == time_left % 86400
         IN  <<time_left \div 86400, secs \div 3600, (secs % 3600) \div 60,
               (secs % 3600) % 60, 0>>
    ELSE IF t > END_DATE
    THEN <<0, 0, 0, 0, 100>>
    ELSE LET time_left == END_DATE - t
             secs == time_left % 86400
         IN  <<time_left \div 86400, secs \div 3600, (secs % 3600) \div 60,
               (secs % 3600) % 60,
               (((t - START_DATE) * 100) \div (END_DATE - START_DATE)) % 100>>

calculate_progress(t) ==
    IF t < START_DATE
    THEN LET time_left == END_DATE - START_DATE
             secs == time_left % 86400
         IN  <<time_left \div 86400, secs \div 3600, (secs % 3600) \div 60,
               (secs % 3600) % 60, 0>>
    ELSE IF t > END_DATE
    THEN <<0, 0, 0, 0, 100>>
    ELSE LET time_left == END_DATE - t
             total_duration == END_DATE - START_DATE
             elapsed == t - START_DATE
             secs == time_left % 86400
             \* int(min(elapsed / total_duration, 1.0) * 100)
             scaled == (elapsed * 100) \div total_duration
             progress == IF scaled > 100 THEN 100 ELSE scaled
         IN  <<time_left \div 86400, secs \div 3600, (secs % 3600) \div 60,
               (secs % 3600) % 60, progress>>

TerminalState == calculate_progress(END_DATE + 1)

\* ---- the labels of update_timer_message (61-70, 86-88) ----
\* The module's strings are ASCII: "den", "dnya", "dney" stand for the
\* Russian день, дня, дней, and "#", "-" for the glyphs █ and ─.
\* (a variant of get_day_form without the test for 11..14)
get_day_form_NoTeens(days) ==
    LET remainder == days % 10
    IN  IF remainder = 1 THEN "den"
        ELSE IF 2 <= remainder /\ remainder <= 4 THEN "dnya"
        ELSE "dney"

get_day_form(days) ==
    IF 11 <= days % 100 /\ days % 100 <= 14
    THEN "dney"
    ELSE LET remainder == days % 10
         IN  IF remainder = 1 THEN "den"
             ELSE IF 2 <= remainder /\ remainder <= 4 THEN "dnya"
             ELSE "dney"

\* (a variant of filled_len that rounds to the nearest integer)
filled_len_Rounds(progress) == (BAR_LENGTH * progress + 50) \div 100

\* int(BAR_LENGTH * (progress / 100)): for the integers 0..100 the float
\* product truncates to the integer quotient.
filled_len(progress) == (BAR_LENGTH * progress) \div 100

\* "#" * filled_len + "-" * (BAR_LENGTH - filled_len); a string repeated a
\* negative number of times is empty, as is 1..n for n < 1.
bar_str(progress) ==
    [k \in 1..filled_len(progress) |-> "#"]
        \o [k \in 1..(BAR_LENGTH - filled_len(progress)) |-> "-"]

\* ---- the registry (37) ----
\* A chat without an entry maps to NoEntry; message ids start at 1.
NoEntry == [message_id |-> 0, task |-> 0, last_state |-> NoState]

\* chat_id in active_timers (120, 155); "not data" is false of every entry (74)
InActiveTimers(at, c) == at[c] # NoEntry

\* ---- update_timer_message, up to the edit (73-106) ----
\* (a variant of NeedsEdit that never skips the edit)
NeedsEdit_Always(data, current_state) == TRUE

\* line 81: the edit is skipped when the state has not changed
NeedsEdit(data, current_state) == data.last_state # current_state

\* str(e) of a BadRequest contains "not modified" (108)
NotModified(o) == o.kind = "BadRequest" /\ o.text = "Message is not modified"

\* ---- tasks and handlers ----
\* task pc:    none, ready (created, not yet run), edit (101), backoff (112),
\*             sleep (124), cancelled (cancel() called, CancelledError not
\*             yet raised in it), done; left: the seconds its sleep still
\*             has to run
\* handler pc: none, send (164), edit (101 via 177), backoff (112 via 177),
\*             errsend (181), done
NoTask == [pc |-> "none", chat |-> 0, left |-> 0]
NoHandler == [pc |-> "none", chat |-> 0, left |-> 0]
\* history of a session's task: how its latest pass of the loop ended:
\* skipped (81-82), or in an edit answered "not modified" (NotModified) or
\* rate-limited (RetryAfter); none otherwise.  A rate limit is remembered
\* until the next pass or the task's cancellation, the rest until the clock
\* moves.
NoHist == "none"
Remembered(h) == IF h = "RetryAfter" THEN h ELSE NoHist
Outcome(o) ==
    IF NotModified(o) THEN "NotModified"
    ELSE IF o.kind = "RetryAfter" THEN o.kind ELSE NoHist
DoneTask == [pc |-> "done", chat |-> 0, left |-> 0]
DoneHandler == [pc |-> "done", chat |-> 0, left |-> 0]

\* task.cancel() (157): no effect on a task that is done; otherwise the
\* future the task waits for (its sleep, its edit) is cancelled and the next
\* thing the task gets, wherever it was, is CancelledError
cancel(tk, i) ==
    IF tk[i].pc \in {"none", "done"} THEN tk
    ELSE [tk EXCEPT ![i].pc = "cancelled", ![i].left = 0]

\* A task that is neither terminated nor cancelled.
Live(i) == task[i].pc \notin {"none", "done", "cancelled"}

\* No pure function is being called.
NoCall == [fn |-> "none", arg |-> 0, returned |-> FALSE, ret |-> 0]

\* The process after the module is loaded (34-37): nothing registered.
Idle ==
    /\ now \in StartInstants
    /\ ticks = 0
    /\ active_timers = [c \in ChatIds |-> NoEntry]
    /\ started = 0
    /\ handler = [i \in Sessions |-> NoHandler]
    /\ task = [i \in Sessions |-> NoTask]
    /\ hist = [i \in Sessions |-> NoHist]
    /\ phase = "running"

\* Every command is sent outside any topic.
\* The registry entry of chat c names task i.
Current(i, c) == InActiveTimers(active_timers, c) /\ active_timers[c].task = i

Init ==
    /\ Idle
    /\ thread_id = [i \in Sessions |-> MainThread]
    /\ call = NoCall

\* asyncio.sleep (112, 124): what is left of a sleep after d more seconds
Elapse(left, d) == IF left > d THEN left - d ELSE 0

\* The clock moves on by Step seconds; every running sleep gets shorter.
Tick ==
    /\ ticks < MaxTicks
    /\ now' = now + Step
    /\ ticks' = ticks + 1
    /\ task' = [i \in Sessions |-> [task[i] EXCEPT !.left = Elapse(@, Step)]]
    /\ handler' = [i \in Sessions |-> [handler[i] EXCEPT !.left = Elapse(@, Step)]]
    /\ hist' = [i \in Sessions |-> Remembered(hist[i])]
    /\ UNCHANGED <<active_timers, started, thread_id, phase, call>>

\* ---- countdown (150-181) ----
\* Lines 150-164: stop the previous timer of the chat, then await send_message.
\* Chat ids are opaque keys (151): a command comes from a chat that some
\* entry, handler or task refers to, or from the least chat none refers to.
Known(c) ==
    \/ InActiveTimers(active_timers, c)
    \/ \E i \in Sessions : handler[i].chat = c \/ task[i].chat = c

Start(c) ==
    /\ phase = "running"
    /\ started < MaxStarts
    /\ Known(c) \/ \A d \in ChatIds : d < c => Known(d)
    /\ started' = started + 1
    /\ IF InActiveTimers(active_timers, c)
       THEN /\ task' = cancel(task, active_timers[c].task)
            /\ hist' = [hist EXCEPT ![active_timers[c].task] = NoHist]
            /\ active_timers' = [active_timers EXCEPT ![c] = NoEntry]
       ELSE UNCHANGED <<task, hist, active_timers>>
    /\ handler' = [handler EXCEPT ![started + 1] = [pc |-> "send", chat |-> c, left |-> 0]]
    /\ UNCHANGED <<now, ticks, thread_id, phase, call>>

\* Lines 164-177 when send_message returns: create the task, store the entry,
\* then update_timer_message up to its await (73-101).
SendOk(i) ==
    LET c == handler[i].chat
        data == [message_id |-> i, task |-> i, last_state |-> NoState]
        current_state == calculate_progress(now)
    IN  /\ handler[i].pc = "send"
        /\ task' = [task EXCEPT ![i] = [pc |-> "ready", chat |-> c, left |-> 0]]
        /\ IF NeedsEdit(data, current_state)
           THEN /\ active_timers' = [active_timers EXCEPT ![c] =
                                       [data EXCEPT !.last_state = current_state]]
                /\ handler' = [handler EXCEPT ![i].pc = "edit"]
           ELSE /\ active_timers' = [active_timers EXCEPT ![c] = data]
                /\ handler' = [handler EXCEPT ![i] = DoneHandler]
        /\ UNCHANGED <<now, ticks, started, hist, thread_id, phase, call>>

\* (a variant of SendFail in which the task was created and the entry stored
\* before the send was awaited, so that a failed send leaves them behind)
SendFail_Spawns(i) ==
    /\ handler[i].pc = "send"
    /\ handler' = [handler EXCEPT ![i].pc = "errsend"]
    /\ task' = [task EXCEPT ![i] = [pc |-> "ready", chat |-> handler[i].chat, left |-> 0]]
    /\ active_timers' = [active_timers EXCEPT ![handler[i].chat] =
                            [message_id |-> i, task |-> i, last_state |-> NoState]]
    /\ UNCHANGED <<now, ticks, started, hist, thread_id, phase, call>>

\* Lines 179-181 when send_message raises: log, then await the error message.
SendFail(i) ==
    /\ handler[i].pc = "send"
    /\ handler' = [handler EXCEPT ![i].pc = "errsend"]
    /\ UNCHANGED <<now, ticks, active_timers, started, task, hist, thread_id, phase, call>>

\* Line 181 completes (or raises out of the handler).
ErrSendDone(i) ==
    /\ handler[i].pc = "errsend"
    /\ handler' = [handler EXCEPT ![i] = DoneHandler]
    /\ UNCHANGED <<now, ticks, active_timers, started, task, hist, thread_id, phase, call>>

\* Lines 101-114 in the handler: the edit of the immediate render ends in o.
\* The task created at 171 was queued before the handler suspended, so it
\* has taken its first step by the time the handler is resumed.
HandlerEditDone(i, o) ==
    /\ handler[i].pc = "edit"
    /\ task[i].pc # "ready"
    /\ IF o.kind = "RetryAfter"
       THEN handler' = [handler EXCEPT ![i].pc = "backoff",
                                       ![i].left = o.retry_after]
       ELSE handler' = [handler EXCEPT ![i] = DoneHandler]
    /\ UNCHANGED <<now, ticks, active_timers, started, task, hist, thread_id, phase, call>>

\* Line 112 in the handler: the backoff sleep is over, countdown returns.
HandlerBackoffDone(i) ==
    /\ handler[i].pc = "backoff"
    /\ handler[i].left = 0
    /\ handler' = [handler EXCEPT ![i] = DoneHandler]
    /\ UNCHANGED <<now, ticks, active_timers, started, task, hist, thread_id, phase, call>>

\* ---- timer_task (116-131) ----
\* One pass of the loop, from its top (120) to the next await: the first
\* step of the task, or its resumption after the interval sleep (124).
TaskRun(i) ==
    LET c == task[i].chat
        data == active_timers[c]
        current_state == calculate_progress(now)
    IN  /\ \/ task[i].pc = "ready"
           \/ task[i].pc = "sleep" /\ task[i].left = 0
        /\ IF ~InActiveTimers(active_timers, c)
           THEN /\ task' = [task EXCEPT ![i] = DoneTask]
                /\ hist' = [hist EXCEPT ![i] = NoHist]
                /\ UNCHANGED active_timers
           ELSE IF NeedsEdit(data, current_state)
           THEN /\ active_timers' = [active_timers EXCEPT ![c].last_state = current_state]
                /\ task' = [task EXCEPT ![i].pc = "edit", ![i].left = 0]
                /\ hist' = [hist EXCEPT ![i] = "none"]
           ELSE /\ task' = [task EXCEPT ![i].pc = "sleep",
                                        ![i].left = UPDATE_INTERVAL]
                /\ hist' = [hist EXCEPT ![i] = "skipped"]
                /\ UNCHANGED active_timers
        /\ UNCHANGED <<now, ticks, started, handler, thread_id, phase, call>>

\* (a variant of TaskEditDone that ends the session on any error but RetryAfter)
TaskEditDone_Fatal(i, o) ==
    /\ task[i].pc = "edit"
    /\ IF o.kind = "RetryAfter"
       THEN /\ task' = [task EXCEPT ![i].pc = "backoff",
                                    ![i].left = o.retry_after]
            /\ hist' = [hist EXCEPT ![i] = Outcome(o)]
            /\ UNCHANGED active_timers
       ELSE IF o.kind = "ok"
       THEN /\ task' = [task EXCEPT ![i].pc = "sleep",
                                    ![i].left = UPDATE_INTERVAL]
            /\ hist' = [hist EXCEPT ![i] = Outcome(o)]
            /\ UNCHANGED active_timers
       ELSE /\ task' = [task EXCEPT ![i] = DoneTask]
            /\ hist' = [hist EXCEPT ![i] = Outcome(o)]
            /\ active_timers' = [active_timers EXCEPT ![task[i].chat] = NoEntry]
    /\ UNCHANGED <<now, ticks, started, handler, thread_id, phase, call>>

\* (a variant of TaskEditDone whose backoff blocks the event loop, as
\* time.sleep would: the clock passes the wait with nothing else running)
TaskEditDone_Blocking(i, o) ==
    /\ task[i].pc = "edit"
    /\ task' = [j \in Sessions |->
                  IF j = i THEN [task[i] EXCEPT !.pc = "sleep", !.left = UPDATE_INTERVAL]
                  ELSE [task[j] EXCEPT !.left = Elapse(@, o.retry_after)]]
    /\ handler' = [j \in Sessions |-> [handler[j] EXCEPT !.left = Elapse(@, o.retry_after)]]
    /\ hist' = [hist EXCEPT ![i] = Outcome(o)]
    /\ now' = now + o.retry_after
    /\ UNCHANGED <<ticks, active_timers, started, thread_id, phase, call>>

\* Lines 101-114 then 124 in the task: the edit ends in o.
TaskEditDone(i, o) ==
    /\ task[i].pc = "edit"
    /\ IF o.kind = "RetryAfter"
       THEN /\ task' = [task EXCEPT ![i].pc = "backoff",
                                    ![i].left = o.retry_after]
            /\ hist' = [hist EXCEPT ![i] = Outcome(o)]
       ELSE /\ task' = [task EXCEPT ![i].pc = "sleep",
                                    ![i].left = UPDATE_INTERVAL]
            /\ hist' = [hist EXCEPT ![i] = Outcome(o)]
    /\ UNCHANGED <<now, ticks, active_timers, started, handler, thread_id, phase, call>>

\* Line 112 then 124 in the task: the backoff sleep is over.
TaskBackoffDone(i) ==
    /\ task[i].pc = "backoff"
    /\ task[i].left = 0
    /\ task' = [task EXCEPT ![i].pc = "sleep", ![i].left = UPDATE_INTERVAL]
    /\ UNCHANGED <<now, ticks, active_timers, started, handler, hist, thread_id, phase, call>>

\* Lines 126-128: a cancelled task gets CancelledError at its await (or
\* before its first step) and ends.
TaskCancelled(i) ==
    /\ task[i].pc = "cancelled"
    /\ task' = [task EXCEPT ![i] = DoneTask]
    /\ UNCHANGED <<now, ticks, active_timers, started, handler, hist, thread_id, phase, call>>

Next ==
    \/ Tick
    \/ \E c \in ChatIds : Start(c)
    \/ \E i \in Sessions : SendOk(i)
    \/ \E i \in Sessions : SendFail(i)
    \/ \E i \in Sessions : ErrSendDone(i)
    \/ \E i \in Sessions : \E o \in Outcomes : HandlerEditDone(i, o)
    \/ \E i \in Sessions : HandlerBackoffDone(i)
    \/ \E i \in Sessions : TaskRun(i)
    \/ \E i \in Sessions : \E o \in Outcomes : TaskEditDone(i, o)
    \/ \E i \in Sessions : TaskBackoffDone(i)
    \/ \E i \in Sessions : TaskCancelled(i)

Spec == Init /\ [][Next]_vars

\* ---- commands sent from the topics of forum chats ----
\* The k-th command carries any thread id.
InitThreads ==
    /\ Idle
    /\ thread_id \in [Sessions -> Threads]
    /\ call = NoCall

SpecThreads == InitThreads /\ [][Next]_vars

\* ---- the end of the process (238-249) ----
\* asyncio.run (240) is left, on KeyboardInterrupt or when serve returns:
\* before it returns it cancels every task of the loop and runs the loop
\* until all of them have ended.  The handlers in flight run in tasks of the
\* server; CancelledError is no Exception, so it unwinds them (179).
Shutdown ==
    /\ phase = "running"
    /\ phase' = "closing"
    /\ task' = [i \in Sessions |-> cancel(task, i)[i]]
    /\ handler' = [i \in Sessions |->
                     IF handler[i].pc = "none" THEN handler[i] ELSE DoneHandler]
    /\ hist' = [i \in Sessions |-> NoHist]
    /\ UNCHANGED <<now, ticks, active_timers, started, thread_id, call>>

\* The finally block (243-249), once asyncio.run has returned: cancel() on
\* the task of every entry; no entry is deleted.
Exit ==
    /\ phase = "closing"
    /\ \A i \in Sessions : task[i].pc \in {"none", "done"}
    /\ phase' = "exited"
    /\ task' = [i \in Sessions |->
                  IF \E c \in ChatIds : Current(i, c) THEN cancel(task, i)[i] ELSE task[i]]
    /\ UNCHANGED <<now, ticks, active_timers, started, handler, hist, thread_id, call>>

NextShutdown == Next \/ Shutdown \/ Exit

SpecShutdown == Init /\ [][NextShutdown]_vars

\* ---- the pure functions, called on their own ----
\* Instants around the start, the end and every hundredth of the period.
CalcInstants ==
    {START_DATE + (k * (END_DATE - START_DATE)) \div 100 + o :
        k \in 0..100, o \in (0 - MaxOffset)..MaxOffset}
DayCounts == 0..MaxDays
Percents == 0..100

Pending(f, x) == [fn |-> f, arg |-> x, returned |-> FALSE, ret |-> 0]

InitRender ==
    /\ Idle
    /\ thread_id = [i \in Sessions |-> MainThread]
    /\ call \in {Pending("calculate_progress", t) : t \in CalcInstants}
                \cup {Pending("get_day_form", d) : d \in DayCounts}
                \cup {Pending("bar_str", p) : p \in Percents}

\* calculate_progress returns for the clock reading call.arg (41-58).
CalculateProgress ==
    /\ call.fn = "calculate_progress" /\ ~call.returned
    /\ call' = [call EXCEPT !.returned = TRUE, !.ret = calculate_progress(call.arg)]
    /\ UNCHANGED <<now, ticks, active_timers, started, handler, task, hist,
                   thread_id, phase>>

\* The next call of calculate_progress: the clock reads t, not earlier than
\* at the call before.
CalculateProgressAgain(t) ==
    /\ call.fn = "calculate_progress" /\ call.returned
    /\ t >= call.arg
    /\ call' = [call EXCEPT !.arg = t, !.ret = calculate_progress(t)]
    /\ UNCHANGED <<now, ticks, active_timers, started, handler, task, hist,
                   thread_id, phase>>

\* get_day_form returns for the day count call.arg (61-70).
GetDayForm ==
    /\ call.fn = "get_day_form" /\ ~call.returned
    /\ call' = [call EXCEPT !.returned = TRUE, !.ret = get_day_form(call.arg)]
    /\ UNCHANGED <<now, ticks, active_timers, started, handler, task, hist,
                   thread_id, phase>>

\* The bar is built for the percent call.arg (87-88).
BarStr ==
    /\ call.fn = "bar_str" /\ ~call.returned
    /\ call' = [call EXCEPT !.returned = TRUE, !.ret = bar_str(call.arg)]
    /\ UNCHANGED <<now, ticks, active_timers, started, handler, task, hist,
                   thread_id, phase>>

NextRender ==
    \/ CalculateProgress
    \/ \E t \in CalcInstants : CalculateProgressAgain(t)
    \/ GetDayForm
    \/ BarStr

SpecRender == InitRender /\ [][NextRender]_vars

\* ---- what the claims speak of ----
\* This step, task i calls edit_message_text (101).
TaskIssuesEdit(i) == task[i].pc # "edit" /\ task'[i].pc = "edit"

\* This step, task i makes a pass of its loop that skips the edit and goes
\* back to the interval sleep (82, 124).
TaskSkips(i) ==
    /\ task[i].pc \in {"ready", "sleep"}
    /\ task'[i].pc = "sleep"
    /\ task'[i] # task[i]

\* This step, an edit of session i (by its task or by its handler) or the
\* backoff sleep that followed one comes to its end.
UpdateEnds(i) ==
    \/ task[i].pc \in {"edit", "backoff"} /\ task'[i].pc \in {"backoff", "sleep"}
                                           /\ task'[i].pc # task[i].pc
    \/ handler[i].pc \in {"edit", "backoff"} /\ handler'[i].pc \in {"backoff", "done"}
                                              /\ handler'[i].pc # handler[i].pc

\* C1: at every instant each chat has at most one task that is neither
\* terminated nor cancelled.
C1_OneLiveTaskPerKey ==
    \A c \in ChatIds : Cardinality({i \in Sessions : Live(i) /\ task[i].chat = c}) <= 1

\* C2: a task calls the edit only while it is the task the registry holds
\* for its chat (a replaced task edits zero times), and no two tasks of one
\* chat have an edit in flight at the same time.
C2_ReplacedTaskNeverEdits ==
    [][/\ \A i \in Sessions : TaskIssuesEdit(i) => Current(i, task[i].chat)
       /\ \A i, j \in Sessions :
             (i # j /\ task'[i].pc = "edit" /\ task'[j].pc = "edit")
                => task'[i].chat # task'[j].chat]_vars

\* C3: a pass of the loop calls the edit only if the freshly computed state
\* differs from the last-rendered one, and it records the state it renders:
\* of two consecutive passes that compute the same state at most one edits.
C3_NoEditWhenUnchanged ==
    [][\A i \in Sessions : TaskIssuesEdit(i) =>
          /\ active_timers[task[i].chat].last_state # calculate_progress(now)
          /\ active_timers'[task[i].chat].last_state = calculate_progress(now)]_vars

\* A pass has just skipped the edit because the state it computed is the
\* last-rendered one.
C3_Witness ==
    \E i \in Sessions :
        /\ hist[i] = "skipped"
        /\ task[i].pc = "sleep"
        /\ task[i].left = UPDATE_INTERVAL
        /\ Current(i, task[i].chat)
        /\ active_timers[task[i].chat].last_state = calculate_progress(now)

\* C4: while a backoff sleep that a rate-limited edit of a session started is
\* still running, no edit is called for that session.
C4_NoEditBeforeRetryAfter ==
    [][\A i \in Sessions : TaskIssuesEdit(i) =>
          /\ ~(handler[i].pc = "backoff" /\ handler[i].left > 0)
          /\ task[i].pc # "backoff"]_vars

\* C5: the pass of the loop that follows a rate-limited edit renders again;
\* it never skips the edit.
C5_RateLimitedTickRetried ==
    [][\A i \in Sessions : hist[i] = "RetryAfter" => hist'[i] # "skipped"]_vars

\* C6: a pass of the loop at which the calculator reports the terminal state
\* ends in the final render or in termination, never back in the interval
\* sleep: the loop does not keep ticking.
C6_StopsAtTerminal ==
    [][\A i \in Sessions : TaskSkips(i) => calculate_progress(now) # TerminalState]_vars

\* The outcomes of an edit by their class in the error taxonomy.
NoOp == {o \in Outcomes : NotModified(o)}
Fatal == {o \in Outcomes : o.kind = "BadRequest" /\ ~NotModified(o)}
Transient == {o \in Outcomes : o.kind = "Exception"}

\* C7: when an edit of a task fails with a BadRequest other than "not
\* modified" (message or chat gone), the task ends and its chat has no
\* registry entry.
C7_FatalSelfTerminates ==
    [][\A i \in Sessions : \A o \in Fatal :
          TaskEditDone(i, o) =>
              /\ task'[i].pc = "done"
              /\ ~InActiveTimers(active_timers', task[i].chat)]_vars

\* C8: when an edit of a task ends in "not modified" or in an exception that
\* is neither BadRequest nor RetryAfter, the registry is left as it is and the
\* task, still running, sleeps the normal interval before its next pass; and
\* when the handler's immediate render ends without a rate limit, the
\* registry and every task are left as they are.
C8_NonFatalKeepsSession ==
    [][/\ \A i \in Sessions :
             \A o \in NoOp \cup Transient : TaskEditDone(i, o) =>
                 /\ active_timers' = active_timers
                 /\ task'[i] = [task[i] EXCEPT !.pc = "sleep", !.left = UPDATE_INTERVAL]
       /\ \A i \in Sessions :
             (handler[i].pc = "edit" /\ handler'[i].pc = "done") =>
                 /\ active_timers' = active_timers
                 /\ task' = task]_vars

\* A registered task sleeps the interval after an edit answered "not modified".
C8_Witness ==
    \E i \in Sessions :
        /\ hist[i] = "NotModified"
        /\ task[i].pc = "sleep" /\ task[i].left = UPDATE_INTERVAL
        /\ Current(i, task[i].chat)

\* C9: the end of an edit of one session, whatever its outcome, and the end
\* of its backoff sleep leave every other session's task and handler, and
\* the registry entry of every other chat, as they were: no other session's
\* sleep is cut short, prolonged or ended by it.
C9_FailuresIsolated ==
    [][\A i \in Sessions : UpdateEnds(i) =>
          LET c == IF task[i].pc \in {"edit", "backoff"} THEN task[i].chat ELSE handler[i].chat
          IN  /\ \A j \in Sessions \ {i} :
                    /\ task'[j] = task[j]
                    /\ handler'[j] = handler[j]
                    /\ hist'[j] = hist[j]
              /\ \A d \in ChatIds \ {c} : active_timers'[d] = active_timers[d]]_vars

\* A task is in the backoff sleep of a rate-limited edit while the session of
\* another chat is registered and its task sleeps towards its next pass.
C9_Witness ==
    \E i, j \in Sessions :
        /\ hist[i] = "RetryAfter" /\ task[i].pc = "backoff"
        /\ task[j].chat # task[i].chat
        /\ task[j].pc = "sleep" /\ task[j].left > 0
        /\ Current(j, task[j].chat)

\* C10: the edit of the immediate render made by the handler and an edit made
\* by the task of the same session are never in flight together.
C10_SequentialUpdates ==
    \A i \in Sessions : ~(handler[i].pc = "edit" /\ task[i].pc = "edit")

\* C11: when the initial send of a command fails, the command stores no
\* registry entry and spawns no task, and it sends the error message to the
\* chat; from then on the command's session has neither a task nor an entry.
C11_FailedSendCreatesNoSession ==
    [][/\ \A i \in Sessions : SendFail(i) =>
             /\ handler'[i].pc = "errsend"
             /\ active_timers' = active_timers
             /\ task' = task
       /\ \A i \in Sessions : handler[i].pc = "errsend" =>
             /\ task'[i].pc = "none"
             /\ \A c \in ChatIds : active_timers'[c].task # i]_vars

\* The initial send of a command has failed and the error message is being
\* sent: the chat has no entry and the command no task.
C11_Witness ==
    \E i \in Sessions :
        /\ handler[i].pc = "errsend"
        /\ task[i].pc = "none"
        /\ ~InActiveTimers(active_timers, handler[i].chat)

\* C12: the steps of a command (150-177) leave the registered session of
\* every other key, a key being a chat and a thread, as it was: its entry is
\* neither removed nor changed and its task is not cancelled, also when the
\* two keys share the chat and differ in the thread.
C12_ScopedByChatAndThread ==
    [][\A k \in Sessions : handler'[k].pc # handler[k].pc =>
          LET kc == IF handler[k].pc = "none" THEN handler'[k].chat ELSE handler[k].chat
          IN  \A j \in Sessions \ {k} : \A c \in ChatIds :
                  (Current(j, c) /\ <<c, thread_id[j]>> # <<kc, thread_id[k]>>) =>
                      /\ active_timers'[c] = active_timers[c]
                      /\ task'[j] = task[j]]_vars

\* This step, task i makes a pass of its loop from the top (118-124): its
\* first step, or its step after a completed interval sleep.
TaskPass(i) ==
    /\ task[i].pc = "ready" \/ (task[i].pc = "sleep" /\ task[i].left = 0)
    /\ task'[i] # task[i]
    /\ task'[i].pc # "cancelled"

\* C13: a session removed from the registry has its loop stopped within one
\* interval.  A start that removes the entry leaves the entry's task not
\* running; and the first pass a task makes when the registry no longer
\* holds its session, which comes at most one interval sleep after the
\* removal, ends the task instead of beginning another interval.
C13_RemovedLoopStops ==
    [][\A i \in Sessions :
          /\ \A c \in ChatIds :
                (Current(i, c) /\ ~InActiveTimers(active_timers', c)) => ~Live(i)'
          /\ (TaskPass(i) /\ ~Current(i, task[i].chat)) => task'[i].pc = "done"]_vars

\* C14: when the shutdown is complete (the finally block has run) the
\* registry is empty and every task has ended.
C14_ShutdownStopsAll ==
    phase = "exited" =>
        /\ \A c \in ChatIds : ~InActiveTimers(active_timers, c)
        /\ \A i \in Sessions : task[i].pc \in {"none", "done"}

\* A call of f has returned.
Returned(f) == call.fn = f /\ call.returned

\* The time left of a result of calculate_progress, in seconds.
Remaining(r) == r[1] * 86400 + r[2] * 3600 + r[3] * 60 + r[4]

\* C15: calculate_progress returns, at every instant before START_DATE,
\* percent 0 with the whole period as the time left, and at every instant
\* from END_DATE on, END_DATE itself included, percent 100 with no time left;
\* a later call after the end returns the same result again.
C15_BeforeStartAndAfterEnd ==
    /\ [](Returned("calculate_progress") =>
            /\ call.arg < START_DATE =>
                  /\ call.ret[5] = 0
                  /\ Remaining(call.ret) = END_DATE - START_DATE
            /\ call.arg >= END_DATE =>
                  /\ call.ret[5] = 100
                  /\ Remaining(call.ret) = 0)
    /\ [][(Returned("calculate_progress") /\ call.arg >= END_DATE) =>
              call'.ret = call.ret]_vars

\* calculate_progress has returned for the instant END_DATE itself.
C15_Witness ==
    /\ Returned("calculate_progress")
    /\ call.arg = END_DATE
    /\ call.ret = <<0, 0, 0, 0, 100>>

\* C16: from one call of calculate_progress to a later one the percent never
\* goes down, wherever the two instants lie: before the start, inside the
\* period, after the end.
C16_PercentMonotone ==
    [][(Returned("calculate_progress") /\ call'.arg >= call.arg) =>
          call'.ret[5] >= call.ret[5]]_vars

\* calculate_progress has returned a percent strictly between 0 and 100 at
\* an instant inside the period.
C16_Witness ==
    /\ Returned("calculate_progress")
    /\ START_DATE < call.arg /\ call.arg < END_DATE
    /\ 0 < call.ret[5] /\ call.ret[5] < 100

\* C17: get_day_form returns the "many" form (dney) when d mod 100 is one of
\* 11..14; otherwise the "one" form (den) when d mod 10 is 1, the "few" form
\* (dnya) when d mod 10 is one of 2..4, and the "many" form in every other
\* case; so 1 and 21 give "one", 2, 3, 4 "few", 5..20 and 11 "many".
C17_DayWord ==
    Returned("get_day_form") =>
        LET d == call.arg
            teens == {n \in DayCounts : n % 100 \in 11..14}
            one == {n \in DayCounts \ teens : n % 10 = 1}
            few == {n \in DayCounts \ teens : n % 10 \in 2..4}
        IN  /\ d \in one => call.ret = "den"
            /\ d \in few => call.ret = "dnya"
            /\ d \notin one \cup few => call.ret = "dney"
            /\ d \in {1, 21} => call.ret = "den"
            /\ d \in {2, 3, 4} => call.ret = "dnya"
            /\ d \in 5..20 => call.ret = "dney"

\* get_day_form has returned the "many" form for 11 days.
C17_Witness ==
    /\ Returned("get_day_form")
    /\ call.arg = 11
    /\ call.ret = "dney"

\* The filled glyphs of a bar.
Filled(b) == {k \in 1..Len(b) : b[k] = "#"}

\* C18: for every percent p of 0..100 the bar is BAR_LENGTH = 16 glyphs
\* long, its filled glyphs come first and number floor(16 * p / 100), the
\* greatest n with 100 * n <= 16 * p; 0 gives 0 filled, 37 gives 5, 50 gives
\* 8 and 100 gives 16.
C18_BarFill ==
    Returned("bar_str") =>
        LET p == call.arg
            b == call.ret
            n == Cardinality(Filled(b))
        IN  /\ Len(b) = 16
            /\ \A k \in 1..Len(b) : b[k] = IF k <= n THEN "#" ELSE "-"
            /\ 100 * n <= 16 * p /\ 16 * p < 100 * (n + 1)
            /\ p = 0 => n = 0
            /\ p = 37 => n = 5
            /\ p = 50 => n = 8
            /\ p = 100 => n = 16

\* The bar has been built for 37 percent: five filled glyphs, eleven empty.
C18_Witness ==
    /\ Returned("bar_str")
    /\ call.arg = 37
    /\ Cardinality(Filled(call.ret)) = 5
    /\ Len(call.ret) = 16

\* The chat of task i has an entry, and the entry names another task.
Superseded(i) ==
    /\ InActiveTimers(active_timers, task[i].chat)
    /\ active_timers[task[i].chat].task # i

\* C19: the check at the top of a pass asks whether the registry holds the
\* task's own session, not only whether the chat has an entry: a pass of a
\* task whose entry names another task ends the task, edits nothing and
\* leaves the registry as it is.
C19_ChecksCurrentOccupant ==
    [][\A i \in Sessions : (TaskPass(i) /\ Superseded(i)) =>
          /\ task'[i].pc = "done"
          /\ active_timers' = active_timers]_vars

\* C20: a command removes the entry of its chat and cancels that entry's
\* task before it sends; and when its send fails, the chat has no entry.
C20_FailedStartLeavesNoSession ==
    [][\A i \in Sessions :
          /\ (handler[i].pc = "none" /\ handler'[i].pc = "send") =>
                LET c == handler'[i].chat
                IN  /\ ~InActiveTimers(active_timers', c)
                    /\ InActiveTimers(active_timers, c) =>
                           task'[active_timers[c].task].pc \in {"cancelled", "done"}
          /\ SendFail(i) => ~InActiveTimers(active_timers', handler[i].chat)]_vars
====
